---- MODULE Spec2Model ----
(***************************************************************************)
(* The session-scoped retrieval-and-indexing pipeline of simple-rag-app:   *)
(* the FastAPI handlers of main.py over the session registry, RAGService,  *)
(* VectorStoreService, DocumentService and the RAG chain.                  *)
(*                                                                         *)
(* Objects are records; an object reference that may be None is a number   *)
(* (0 is None, n > 0 is the n-th object of that class constructed in the   *)
(* process) and an optional sub-object is a sequence of length 0 or 1.     *)
(* A Python call that may raise is an operator over a "machine" record     *)
(* whose field err names the exception ("none" when it returned).          *)
(***************************************************************************)
EXTENDS Integers, Sequences, FiniteSets, TLC

(***************************************************************************)
(* Bounds of the model.                                                    *)
(***************************************************************************)
\* RAGService objects constructed in one run
MaxInst == 2
\* entries the collections may hold together before ingests stop
MaxEntries == 3
\* Chroma objects one VectorStoreService may construct
MaxStores == 2

SessionIds == {"s1", "s2"}
\* the upload handlers that may be suspended at the same time
Handlers == {"h1", "h2"}
Questions == {"q1"}

(***************************************************************************)
(* Configuration (src/models/config.py).                                   *)
(***************************************************************************)
retrieval_k == 4

RAGConfig == [retrieval_strategy |-> "similarity", retrieval_k |-> retrieval_k]

(***************************************************************************)
(* Files.  A filename is the sequence <<stem, extension>> (<<>> is the     *)
(* missing filename); a file's content says whether its loader can parse   *)
(* it and the page texts it yields.  A page text is the sequence of the    *)
(* segments of at most chunk_size characters the text splitter cuts it     *)
(* into (<<>> is a page with no text).                                     *)
(***************************************************************************)
endswith(filename, suffixes) == filename # <<>> /\ filename[Len(filename)] \in suffixes

GoodA == [ok |-> TRUE, pages |-> << <<"t1">>, <<"t2">> >>]
GoodB == [ok |-> TRUE, pages |-> << <<"t3">> >>]
\* a file whose second page has no text
GoodC == [ok |-> TRUE, pages |-> << <<"t3">>, <<>> >>]
Corrupt == [ok |-> FALSE, pages |-> <<>>]

UploadFile(filename, content) == [filename |-> filename, content |-> content]

\* the multipart bodies the clients send: a two-page PDF; an HTML page with
\* a PDF that cannot be parsed; a part with no filename and a text file; a
\* PDF that cannot be parsed; a PDF with a page without text; two parts that
\* carry the same filename and different contents
BodyPdf == << UploadFile(<<"a", ".pdf">>, GoodA) >>
BodyMixed == << UploadFile(<<"b", ".html">>, GoodB), UploadFile(<<"x", ".pdf">>, Corrupt) >>
BodyNoValidFile == << UploadFile(<<>>, GoodB), UploadFile(<<"n", ".txt">>, GoodB) >>
BodyCorrupt == << UploadFile(<<"x", ".pdf">>, Corrupt) >>
BodyBlankPage == << UploadFile(<<"c", ".pdf">>, GoodC) >>
BodySameName == << UploadFile(<<"a", ".pdf">>, GoodA), UploadFile(<<"a", ".pdf">>, GoodB) >>

Batches == {BodyPdf, BodyMixed, BodyNoValidFile, BodyCorrupt, BodyBlankPage, BodySameName}

(***************************************************************************)
(* DocumentService (src/services/document_service.py).                     *)
(***************************************************************************)
Document(page_content, source) == [page_content |-> page_content, source |-> source]

\* PyPDFLoader(file_path).load(): one Document per page; raises when the file
\* is missing or cannot be parsed.
load_pdf_document(fs, folder, file_path) ==
    IF file_path \notin DOMAIN fs \/ ~fs[file_path].ok
    THEN [raised |-> TRUE, docs |-> <<>>]
    ELSE [raised |-> FALSE,
          docs |-> [i \in 1..Len(fs[file_path].pages) |->
                       Document(fs[file_path].pages[i], folder)]]

\* BSHTMLLoader(file_path, open_encoding="latin-1").load()
load_html_document(fs, folder, file_path) ==
    IF file_path \notin DOMAIN fs \/ ~fs[file_path].ok
    THEN [raised |-> TRUE, docs |-> <<>>]
    ELSE [raised |-> FALSE,
          docs |-> [i \in 1..Len(fs[file_path].pages) |->
                       Document(fs[file_path].pages[i], folder)]]

\* what one iteration of the loop of load_documents extends documents by:
\* the file's documents, or nothing when the extension is unsupported or the
\* loader raised (the except clause logs and goes on)
LoadOne(fs, folder, file_path) ==
    IF endswith(file_path, {".pdf"})
    THEN LET r == load_pdf_document(fs, folder, file_path)
         IN  IF r.raised THEN <<>> ELSE r.docs
    ELSE IF endswith(file_path, {".html"})
    THEN LET r == load_html_document(fs, folder, file_path)
         IN  IF r.raised THEN <<>> ELSE r.docs
    ELSE <<>>

\* whether the loader of a file raises
LoaderRaises(fs, folder, file_path) ==
    \/ endswith(file_path, {".pdf"}) /\ load_pdf_document(fs, folder, file_path).raised
    \/ endswith(file_path, {".html"}) /\ load_html_document(fs, folder, file_path).raised

\* load_documents giving up at the first file whose loader raises
RECURSIVE load_documents_stop(_, _, _)
load_documents_stop(fs, folder, file_paths) ==
    IF file_paths = <<>> \/ LoaderRaises(fs, folder, Head(file_paths)) THEN <<>>
    ELSE LoadOne(fs, folder, Head(file_paths))
             \o load_documents_stop(fs, folder, Tail(file_paths))

\* load_documents putting the documents of a file before those loaded so far
RECURSIVE load_documents_prepend(_, _, _)
load_documents_prepend(fs, folder, file_paths) ==
    IF file_paths = <<>> THEN <<>>
    ELSE load_documents_prepend(fs, folder, Tail(file_paths))
             \o LoadOne(fs, folder, Head(file_paths))

RECURSIVE load_documents(_, _, _)
load_documents(fs, folder, file_paths) ==
    IF file_paths = <<>> THEN <<>>
    ELSE LoadOne(fs, folder, Head(file_paths)) \o load_documents(fs, folder, Tail(file_paths))

\* the chunks of one document: one per segment, metadata copied
SplitOne(doc) ==
    [i \in 1..Len(doc.page_content) |-> Document(doc.page_content[i], doc.source)]

RECURSIVE split_documents(_)
split_documents(documents) ==
    IF documents = <<>> THEN <<>>
    ELSE SplitOne(Head(documents)) \o split_documents(Tail(documents))

(***************************************************************************)
(* The Chroma library as the services use it.  Chroma(collection_name=..., *)
(* embedding_function=...) with no persist_directory attaches to the       *)
(* process-wide in-memory client and gets or creates the named collection: *)
(* collections maps each collection that exists in the process to its      *)
(* entries, in insertion order.                                            *)
(***************************************************************************)
Chroma(collections, collection_name) ==
    IF collection_name \in DOMAIN collections THEN collections
    ELSE collections @@ (collection_name :> <<>>)

\* cosine similarity of the embedded question and the embedded text, as a rank
Score(question, text) ==
    CASE question = "q1" /\ text = "t1" -> 1
      [] question = "q1" /\ text = "t2" -> 3
      [] question = "q1" /\ text = "t3" -> 2
      [] OTHER -> 0

\* the k entries of highest score, best first, ties by insertion order
RECURSIVE TopK(_, _, _, _)
TopK(entries, idxs, question, k) ==
    IF k <= 0 \/ idxs = {} THEN <<>>
    ELSE LET best == CHOOSE i \in idxs : \A j \in idxs :
                        \/ Score(question, entries[i].page_content) > Score(question, entries[j].page_content)
                        \/ /\ Score(question, entries[i].page_content) = Score(question, entries[j].page_content)
                           /\ i <= j
         IN  <<entries[best]>> \o TopK(entries, idxs \ {best}, question, k - 1)

\* retriever.invoke(question) of vectorstore.as_retriever(search_type="similarity",
\* search_kwargs={"k": k}) on the collection's entries
similarity_search(entries, question, k) == TopK(entries, DOMAIN entries, question, k)

\* the greedy selection of maximal marginal relevance: of the candidates left,
\* one whose text is not selected yet goes before one that repeats a selected
\* text; among those the better rank in the pool wins
RECURSIVE MmrSelect(_, _, _, _)
MmrSelect(pool, idxs, selected, k) ==
    IF k <= 0 \/ idxs = {} THEN <<>>
    ELSE LET Repeats(i) == \E j \in DOMAIN selected :
                              selected[j].page_content = pool[i].page_content
             best == CHOOSE i \in idxs : \A j \in idxs :
                        \/ (~Repeats(i) /\ Repeats(j))
                        \/ (Repeats(i) = Repeats(j) /\ i <= j)
         IN  <<pool[best]>> \o MmrSelect(pool, idxs \ {best}, Append(selected, pool[best]), k - 1)

\* retriever.invoke(question) with search_type="mmr": the fetch_k entries
\* nearest to the question are the candidates, k of them are selected
max_marginal_relevance_search(entries, question, k, fetch_k) ==
    LET pool == similarity_search(entries, question, fetch_k)
    IN  MmrSelect(pool, DOMAIN pool, <<>>, k)

(***************************************************************************)
(* The machine an operation of a service runs on: the service object and   *)
(* the process-wide collections, plus what the call did: err (the          *)
(* exception raised, "none" when it returned), chromas (Chroma objects     *)
(* constructed), models (embedding models loaded), loads (calls of         *)
(* load_documents), retrievals (calls of retriever.invoke), out (the       *)
(* value returned), names (the strategies the message of the exception     *)
(* names as valid), fetch_k (the size of the candidate pool the last mmr   *)
(* retrieval asked for, 0 when there was none).                            *)
(***************************************************************************)
Machine(svc, collections) ==
    [svc |-> svc, collections |-> collections, err |-> "none",
     chromas |-> 0, models |-> 0, loads |-> 0, retrievals |-> 0, out |-> <<>>,
     names |-> {}, fetch_k |-> 0]

Raise(m, e) == [m EXCEPT !.err = e]

\* what the environment does to one request: whether the embedding model
\* loads, whether the insertion into the collection succeeds, whether the
\* chat model answers, whether the upload folder can be written
EnvOk ==
    [embOk |-> TRUE, addOk |-> TRUE, llmOk |-> TRUE, writeOk |-> TRUE]

\* the environments of a question: at most one fault
QuestionEnvs ==
    { EnvOk,
      [EnvOk EXCEPT !.embOk = FALSE],
      [EnvOk EXCEPT !.llmOk = FALSE] }

\* the faults of an ingest, and the ingests the model runs: every input with
\* no fault and one input with each fault
IngestFaults ==
    { [EnvOk EXCEPT !.embOk = FALSE],
      [EnvOk EXCEPT !.addOk = FALSE],
      [EnvOk EXCEPT !.writeOk = FALSE] }

IngestCases(inputs, input) ==
    {[input |-> i, env |-> EnvOk] : i \in inputs}
        \cup {[input |-> input, env |-> e] : e \in IngestFaults}

UploadCases == IngestCases(Batches, BodyPdf)

(***************************************************************************)
(* VectorStoreService (src/services/vectorstore_service.py).               *)
(* _embeddings is 0 (None) or 1 (the model); _vectorstore is 0 (None) or   *)
(* n, the n-th Chroma object this service constructed and assigned to it.  *)
(***************************************************************************)
VectorStoreService(collection_name) ==
    [collection_name |-> collection_name, _embeddings |-> 0, _vectorstore |-> 0]

\* the VectorStoreService of a RAGService that has made one
VS(svc) == svc._vectorstore_service[1]

\* the property embeddings constructing a model on every access
embeddings_uncached(m, env) ==
    IF ~env.embOk THEN Raise(m, "EmbeddingsError")
    ELSE [m EXCEPT !.svc._vectorstore_service[1]._embeddings = 1,
                   !.models = @ + 1]

\* property embeddings: loads the model on first access and caches it
embeddings(m, env) ==
    IF VS(m.svc)._embeddings # 0 THEN m
    ELSE IF ~env.embOk THEN Raise(m, "EmbeddingsError")
    ELSE [m EXCEPT !.svc._vectorstore_service[1]._embeddings = 1,
                   !.models = @ + 1]

\* create_empty_vectorstore returning the store without keeping it
create_empty_vectorstore_uncached(m, env) ==
    LET m1 == embeddings(m, env)
    IN  IF m1.err # "none" THEN m1
        ELSE [m1 EXCEPT !.chromas = @ + 1,
                        !.collections = Chroma(m1.collections, VS(m1.svc).collection_name)]

create_empty_vectorstore(m, env) ==
    LET m1 == embeddings(m, env)
    IN  IF m1.err # "none" THEN m1
        ELSE [m1 EXCEPT !.svc._vectorstore_service[1]._vectorstore = @ + 1,
                        !.chromas = @ + 1,
                        !.collections = Chroma(m1.collections, VS(m1.svc).collection_name)]

\* property vectorstore: creates the store when there is none
vectorstore(m, env) ==
    IF VS(m.svc)._vectorstore = 0 THEN create_empty_vectorstore(m, env) ELSE m

exists(svc) == VS(svc)._vectorstore # 0

\* add_documents replacing the entries of the collection
ChromaReplaceDocuments(m, documents, env) ==
    IF documents = <<>> THEN Raise(m, "ValueError")
    ELSE IF ~env.addOk THEN Raise(m, "InsertError")
    ELSE [m EXCEPT !.collections[VS(m.svc).collection_name] = documents]

\* add_documents accepting an empty batch
ChromaAddDocumentsLenient(m, documents, env) ==
    IF documents = <<>> THEN m
    ELSE IF ~env.addOk THEN Raise(m, "InsertError")
    ELSE [m EXCEPT !.collections[VS(m.svc).collection_name] = @ \o documents]

\* the Chroma object's add_documents: the documents become entries of the
\* collection, appended in input order; the collection rejects an upsert of
\* no ids with ValueError
ChromaAddDocuments(m, documents, env) ==
    IF documents = <<>> THEN Raise(m, "ValueError")
    ELSE IF ~env.addOk THEN Raise(m, "InsertError")
    ELSE [m EXCEPT !.collections[VS(m.svc).collection_name] = @ \o documents]

\* create_from_documents: Chroma.from_documents constructs the Chroma object
\* of the collection and inserts the documents; the object is assigned to
\* _vectorstore when the insertion returned
create_from_documents(m, documents, env) ==
    LET m1 == embeddings(m, env)
        m2 == [m1 EXCEPT !.chromas = @ + 1,
                         !.collections = Chroma(m1.collections, VS(m1.svc).collection_name)]
        m3 == ChromaAddDocuments(m2, documents, env)
    IN  IF m1.err # "none" THEN m1
        ELSE IF m3.err # "none" THEN m3
        ELSE [m3 EXCEPT !.svc._vectorstore_service[1]._vectorstore = @ + 1]

\* add_documents dropping the store when the insertion fails
vs_add_documents_reset(m, documents, env) ==
    LET m1 == vectorstore(m, env)
        m2 == ChromaAddDocuments(m1, documents, env)
    IN  IF m1.err # "none" THEN m1
        ELSE IF m2.err # "none"
        THEN [m2 EXCEPT !.svc._vectorstore_service[1]._vectorstore = 0]
        ELSE m2

\* VectorStoreService.add_documents
vs_add_documents(m, documents, env) ==
    LET m1 == vectorstore(m, env)
    IN  IF m1.err # "none" THEN m1 ELSE ChromaAddDocuments(m1, documents, env)

(***************************************************************************)
(* RAGService (src/services/rag_service.py).                               *)
(***************************************************************************)
\* the collection name without the session id in it
CollectionNameDefault(session_id) == <<"session_", "Default">>

\* f"session_{self.session_id}"
CollectionName(session_id) == <<"session_", session_id>>

RAGService(config, session_id) ==
    [config |-> config, session_id |-> session_id, _vectorstore_service |-> <<>>]

\* property vectorstore_service: the service object once the property was read
vectorstore_service(svc) ==
    IF svc._vectorstore_service = <<>>
    THEN [svc EXCEPT !._vectorstore_service =
              <<VectorStoreService(CollectionName(svc.session_id))>>]
    ELSE svc

\* initialize_vectorstore creating a store whether or not one exists
initialize_vectorstore_always(m, force_rebuild, env) ==
    create_empty_vectorstore([m EXCEPT !.svc = vectorstore_service(m.svc)], env)

initialize_vectorstore(m, force_rebuild, env) ==
    LET m1 == [m EXCEPT !.svc = vectorstore_service(m.svc)]
    IN  IF force_rebuild \/ ~exists(m1.svc)
        THEN create_empty_vectorstore(m1, env)
        ELSE vectorstore(m1, env)

\* add_documents without the test that the store exists
add_documents_unchecked(m, fs, folder, file_paths, force_rebuild, env) ==
    IF force_rebuild THEN initialize_vectorstore(m, TRUE, env)
    ELSE LET m1 == [m EXCEPT !.svc = vectorstore_service(m.svc)]
             new_documents == load_documents(fs, folder, file_paths)
             splits == split_documents(new_documents)
         IN  vs_add_documents([m1 EXCEPT !.loads = @ + 1], splits, env)

\* RAGService.add_documents; fs and folder are where file_paths are read from
add_documents(m, fs, folder, file_paths, force_rebuild, env) ==
    IF force_rebuild THEN initialize_vectorstore(m, TRUE, env)
    ELSE LET m1 == [m EXCEPT !.svc = vectorstore_service(m.svc)]
         IN  IF ~exists(m1.svc) THEN Raise(m1, "ValueError")
             ELSE LET new_documents == load_documents(fs, folder, file_paths)
                      splits == split_documents(new_documents)
                  IN  vs_add_documents([m1 EXCEPT !.loads = @ + 1], splits, env)

(***************************************************************************)
(* The RAG chain (src/chains/rag_chain.py) and query_with_sources.         *)
(***************************************************************************)
\* vectorstore.as_retriever(search_type=..., search_kwargs={"k": ...})
as_retriever(svc) ==
    [collection_name |-> VS(svc).collection_name,
     search_type |-> svc.config.retrieval_strategy,
     search_kwargs |-> [k |-> svc.config.retrieval_k]]

\* the search types the retriever class of the library accepts; as_retriever
\* raises ValueError naming them for any other search type, and for
\* "similarity_score_threshold" without a score_threshold in search_kwargs
allowed_search_types == {"similarity", "similarity_score_threshold", "mmr"}

RetrieverRejected(retriever) ==
    \/ retriever.search_type \notin allowed_search_types
    \/ /\ retriever.search_type = "similarity_score_threshold"
       /\ "score_threshold" \notin DOMAIN retriever.search_kwargs

\* the candidate pool of an mmr retrieval: search_kwargs["fetch_k"], or the
\* library's default of 20 when search_kwargs has none
FetchK(retriever) ==
    IF "fetch_k" \in DOMAIN retriever.search_kwargs
    THEN retriever.search_kwargs.fetch_k ELSE 20

\* retriever.invoke(question): one retrieval against the collection
retriever_invoke(collections, retriever, question) ==
    IF retriever.search_type = "mmr"
    THEN max_marginal_relevance_search(collections[retriever.collection_name], question,
                                       retriever.search_kwargs.k, FetchK(retriever))
    ELSE similarity_search(collections[retriever.collection_name], question,
                           retriever.search_kwargs.k)

\* what a retrieval by the retriever leaves on the machine
Retrieved(m, retriever) ==
    [m EXCEPT !.retrievals = @ + 1,
              !.fetch_k = IF retriever.search_type = "mmr" THEN FetchK(retriever) ELSE 0]

\* the page contents of the documents, in order ("\n\n".join puts them,
\* in this order, into the context block)
format_docs(docs) == [i \in 1..Len(docs) |-> docs[i].page_content]

\* the chain retrieving with a retriever of its own, of another k
ChainInvokeOwnRetriever(m, retriever, question, env) ==
    LET context_docs == retriever_invoke(m.collections,
                                         [retriever EXCEPT !.search_kwargs.k = 1], question)
        m1 == [Retrieved(m, retriever) EXCEPT
                        !.out = [context_docs |-> context_docs,
                                 prompt |-> [context |-> format_docs(context_docs),
                                             question |-> question]]]
    IN  IF env.llmOk THEN m1 ELSE Raise(m1, "LLMError")

\* chain.invoke(question) of create_rag_chain(llm, retriever): the chain's
\* first stage is {"context": retriever | format_docs, "question": passthrough},
\* so the chain retrieves by itself; the chat model then gets the prompt
ChainInvoke(m, retriever, question, env) ==
    LET context_docs == retriever_invoke(m.collections, retriever, question)
        m1 == [Retrieved(m, retriever) EXCEPT
                        !.out = [context_docs |-> context_docs,
                                 prompt |-> [context |-> format_docs(context_docs),
                                             question |-> question]]]
    IN  IF env.llmOk THEN m1 ELSE Raise(m1, "LLMError")

query_with_sources(m, question, env) ==
    LET m1 == vectorstore([m EXCEPT !.svc = vectorstore_service(m.svc)], env)
    IN  IF m1.err # "none" THEN m1
        ELSE LET retriever == as_retriever(m1.svc)
                 docs == retriever_invoke(m1.collections, retriever, question)
                 references == format_docs(docs)
                 m2 == ChainInvoke(Retrieved(m1, retriever), retriever, question, env)
             IN  IF RetrieverRejected(retriever)
                 THEN [Raise(m1, "ValueError") EXCEPT !.names = allowed_search_types]
                 ELSE IF m2.err # "none" THEN m2
                 ELSE [m2 EXCEPT !.out = [answer |-> m2.out.prompt,
                                          references |-> references,
                                          docs |-> docs,
                                          context_docs |-> m2.out.context_docs]]

(***************************************************************************)
(* get_llm (src/models/llm_factory.py).                                    *)
(***************************************************************************)
\* the exception get_llm raises ("none" when it returns a chat model) and its
\* message; environ is the set of the environment variables that are set
LlmError(detail) == [err |-> "ValueError", detail |-> detail]

ChatModel == [err |-> "none", detail |-> ""]

get_llm(provider, api_key, environ) ==
    IF provider = "groq"
    THEN IF api_key # "" \/ "GROQ_API_KEY" \in environ
         THEN ChatModel ELSE LlmError("Groq API key is required")
    ELSE IF provider = "gemini"
    THEN IF api_key # "" \/ "GEMINI_API_KEY" \in environ \/ "GOOGLE_API_KEY" \in environ
         THEN ChatModel ELSE LlmError("Gemini API key is required")
    ELSE IF provider = "ollama" THEN ChatModel
    ELSE LlmError("Unknown provider")

(***************************************************************************)
(* RetrievalService (src/services/retrieval_service.py).                   *)
(***************************************************************************)
\* RetrievalService(vectorstore).retrieve(query, strategy, k) on the store of
\* the service of machine m
retrieve(m, query, strategy, k) ==
    LET similarity == [collection_name |-> VS(m.svc).collection_name,
                       search_type |-> "similarity",
                       search_kwargs |-> [k |-> k]]
        mmr == [collection_name |-> VS(m.svc).collection_name,
                search_type |-> "mmr",
                search_kwargs |-> [k |-> k, fetch_k |-> k * 2]]
    IN  IF strategy \notin {"similarity", "mmr"}
        THEN [Raise(m, "ValueError") EXCEPT !.names = {"similarity", "mmr"}]
        ELSE LET retriever == IF strategy = "similarity" THEN similarity ELSE mmr
             IN  [Retrieved(m, retriever) EXCEPT
                     !.out = retriever_invoke(m.collections, retriever, query)]

(***************************************************************************)
(* The state of the server process (main.py).                              *)
(***************************************************************************)
VARIABLES
    _sessions,    \* the registry: session id -> RAGService object number
    heap,         \* the live RAGService objects, by object number
    collections,  \* the collections of the process-wide in-memory Chroma client
    nInst,        \* RAGService objects constructed so far
    handlers,     \* the upload handlers suspended at an await, by handler
    last          \* what the last step of a handler did and answered

vars == <<_sessions, heap, collections, nInst, handlers, last>>

\* f with f[k] = v, as the Python assignment f[k] = v leaves a dict
Put(f, k, v) == [x \in DOMAIN f \cup {k} |-> IF x = k THEN v ELSE f[x]]

\* f without key k, as del f[k] leaves a dict
Del(f, k) == [x \in DOMAIN f \ {k} |-> f[x]]

\* the process state an operation starts from; err, service, chromas and
\* models are what get_rag_service raised, returned, constructed and loaded
World ==
    [sessions |-> _sessions, heap |-> heap, collections |-> collections,
     nInst |-> nInst, err |-> "none", service |-> 0, chromas |-> 0, models |-> 0]

Commit(w) ==
    /\ _sessions' = w.sessions
    /\ heap' = w.heap
    /\ collections' = w.collections
    /\ nInst' = w.nInst

\* the machine of the service object id, and the world after the machine ran
WithMachine(w, id) == Machine(w.heap[id], w.collections)

Absorb(w, id, m) ==
    [w EXCEPT !.heap[id] = m.svc, !.collections = m.collections,
              !.chromas = @ + m.chromas, !.models = @ + m.models]

\* session_id in _sessions
Registered(sessions, session_id) == session_id \in DOMAIN sessions

\* get_rag_service without the membership test: a service is constructed and
\* registered on every call
get_rag_service_unchecked(w, session_id, env) ==
    LET service == RAGService(RAGConfig, session_id)
        m == initialize_vectorstore(Machine(service, w.collections), FALSE, env)
        w1 == [w EXCEPT !.nInst = @ + 1, !.collections = m.collections,
                        !.chromas = m.chromas, !.models = m.models]
    IN  IF m.err # "none" THEN [w1 EXCEPT !.err = m.err]
        ELSE [w1 EXCEPT !.sessions = Put(@, session_id, w.nInst + 1),
                        !.heap = Put(Del(@, IF session_id \in DOMAIN w.sessions
                                              THEN w.sessions[session_id] ELSE 0),
                                     w.nInst + 1, m.svc),
                        !.service = w.nInst + 1]

\* get_rag_service initializing the vector store of a registered session again
get_rag_service_reinit(w, session_id, env) ==
    IF session_id \notin DOMAIN w.sessions
    THEN get_rag_service_unchecked(w, session_id, env)
    ELSE LET id == w.sessions[session_id]
             m == initialize_vectorstore(Machine(w.heap[id], w.collections), TRUE, env)
         IN  [w EXCEPT !.heap[id] = m.svc, !.collections = m.collections,
                       !.chromas = m.chromas, !.models = m.models,
                       !.err = m.err, !.service = IF m.err = "none" THEN id ELSE 0]

\* get_rag_service registering the service before it is initialized
get_rag_service_register_first(w, session_id, env) ==
    IF session_id \in DOMAIN w.sessions
    THEN [w EXCEPT !.service = w.sessions[session_id]]
    ELSE LET service == RAGService(RAGConfig, session_id)
             m == initialize_vectorstore(Machine(service, w.collections), FALSE, env)
         IN  [w EXCEPT !.nInst = @ + 1, !.collections = m.collections,
                       !.chromas = m.chromas, !.models = m.models,
                       !.sessions = Put(@, session_id, w.nInst + 1),
                       !.heap = Put(@, w.nInst + 1, m.svc),
                       !.err = m.err,
                       !.service = IF m.err = "none" THEN w.nInst + 1 ELSE 0]

get_rag_service(w, session_id, env) ==
    IF ~Registered(w.sessions, session_id)
    THEN LET service == RAGService(RAGConfig, session_id)
             m == initialize_vectorstore(Machine(service, w.collections), FALSE, env)
             w1 == [w EXCEPT !.nInst = @ + 1, !.collections = m.collections,
                             !.chromas = m.chromas, !.models = m.models]
         IN  IF m.err # "none" THEN [w1 EXCEPT !.err = m.err]
             ELSE [w1 EXCEPT !.sessions = Put(@, session_id, w.nInst + 1),
                             !.heap = Put(@, w.nInst + 1, m.svc),
                             !.service = w.nInst + 1]
    ELSE [w EXCEPT !.service = w.sessions[session_id]]

(***************************************************************************)
(* Requests and responses.  last records the handler step just taken: the  *)
(* request (op, session_id; fresh: the session id was not in the registry  *)
(* when the step began), what the step did (service: the object       *)
(* get_rag_service returned; constructed, chromas, models, retrievals: the *)
(* RAGService objects, Chroma objects, embedding models it made and the    *)
(* retrievals it ran; docs, context_docs: the documents retrieved for the  *)
(* references and for the prompt; err, loads: the exception raised in the  *)
(* handler or by a direct call of a service, and its calls of              *)
(* load_documents; strategy, k: the retrieval strategy and k of a direct   *)
(* call; names, fetch_k: as in the machine; files: the body of an upload   *)
(* or the paths of a direct call; cred: the credentials of a question) and *)
(* the HTTP response.                                                      *)
(***************************************************************************)
NoAnswer == [context |-> <<>>, question |-> ""]

NoLast ==
    [op |-> "none", session_id |-> "", fresh |-> FALSE,
     service |-> 0, constructed |-> 0, chromas |-> 0, models |-> 0, retrievals |-> 0,
     docs |-> <<>>, context_docs |-> <<>>,
     err |-> "none", loads |-> 0,
     strategy |-> "", k |-> 0, names |-> {}, fetch_k |-> 0, files |-> <<>>,
     cred |-> [provider |-> "", api_key |-> "", environ |-> {}],
     status |-> 0, detail |-> "",
     documents_indexed |-> 0, total_chunks |-> 0,
     answer |-> NoAnswer, references |-> <<>>]

Http(status, detail) == [NoLast EXCEPT !.status = status, !.detail = detail]

\* the response resp of request op, with what the step did in world w1 from w
Did(op, session_id, fresh, w, w1, resp) ==
    [resp EXCEPT !.op = op, !.session_id = session_id, !.fresh = fresh,
                 !.service = w1.service,
                 !.constructed = w1.nInst - w.nInst,
                 !.chromas = w1.chromas, !.models = w1.models]

\* the credentials get_llm is called with and the environment variables set
Credentials ==
    { [provider |-> "groq", api_key |-> "key", environ |-> {}],
      [provider |-> "groq", api_key |-> "", environ |-> {}],
      [provider |-> "gemini", api_key |-> "", environ |-> {"GROQ_API_KEY"}],
      [provider |-> "ollama", api_key |-> "", environ |-> {}],
      [provider |-> "bogus", api_key |-> "key", environ |-> {}] }

\* the credentials of the questions: a provider that needs no key, two
\* providers whose key is missing, and an unknown provider
RequestCredentials ==
    { [provider |-> "ollama", api_key |-> "", environ |-> {}],
      [provider |-> "groq", api_key |-> "", environ |-> {}],
      [provider |-> "gemini", api_key |-> "", environ |-> {"GROQ_API_KEY"}],
      [provider |-> "bogus", api_key |-> "key", environ |-> {}] }

\* every exception answered as a generic failure
StatusOfGeneric(err) == 500

\* the except clauses of ask_question: ValueError is answered 400, the rest 500
StatusOf(err) == IF err = "ValueError" THEN 400 ELSE 500

Idle == [pc |-> "idle", session_id |-> ""]

Init ==
    /\ _sessions = <<>>
    /\ heap = <<>>
    /\ collections = <<>>
    /\ nInst = 0
    /\ handlers = [h \in Handlers |-> Idle]
    /\ last = NoLast

(***************************************************************************)
(* DELETE /session/{session_id}                                            *)
(***************************************************************************)
\* delete_session answering without removing the entry
delete_session_keep(w, session_id) ==
    IF session_id \in DOMAIN w.sessions
    THEN [w |-> w, resp |-> Http(200, "deleted")]
    ELSE [w |-> w, resp |-> Http(404, "Session not found")]

\* delete_session emptying the registry
delete_session_all(w, session_id) ==
    IF session_id \in DOMAIN w.sessions
    THEN [w |-> [w EXCEPT !.sessions = <<>>, !.heap = <<>>],
          resp |-> Http(200, "deleted")]
    ELSE [w |-> w, resp |-> Http(404, "Session not found")]

delete_session(w, session_id) ==
    IF Registered(w.sessions, session_id)
    THEN [w |-> [w EXCEPT !.sessions = Del(@, session_id),
                          !.heap = Del(@, w.sessions[session_id])],
          resp |-> Http(200, "deleted")]
    ELSE [w |-> w, resp |-> Http(404, "Session not found")]

DeleteSession(session_id) ==
    LET r == delete_session(World, session_id)
    IN  /\ Commit(r.w)
        /\ last' = Did("delete", session_id, session_id \notin DOMAIN _sessions,
                       World, r.w, r.resp)
        /\ UNCHANGED handlers

(***************************************************************************)
(* GET /models                                                             *)
(***************************************************************************)
GetModels ==
    /\ last' = Did("models", "", FALSE, World, World, Http(200, "models"))
    /\ UNCHANGED <<_sessions, heap, collections, nInst, handlers>>

(***************************************************************************)
(* POST /upload.  The handler is a coroutine: it can be suspended only at  *)
(* await file.read() in the loop that saves the files, which touches only  *)
(* the handler's own upload folder (data/upload/<uuid4>); from the last    *)
(* read to the response it runs without yielding the event loop.           *)
(* UploadReceive is the arrival of the request and the suspension,         *)
(* UploadRun the rest of the handler.                                      *)
(***************************************************************************)
UploadReceive(h, session_id) ==
    /\ handlers[h].pc = "idle"
    /\ handlers' = [handlers EXCEPT ![h] =
           [pc |-> "saving", session_id |-> session_id]]
    /\ last' = Did("receive", session_id, session_id \notin DOMAIN _sessions,
                   World, World, NoLast)
    /\ UNCHANGED <<_sessions, heap, collections, nInst>>

\* the loop over files: folder is the upload folder (filename -> content),
\* saved_files the paths saved, failed whether a write raised
RECURSIVE save_files(_, _, _, _)
save_files(files, folder, saved_files, env) ==
    IF files = <<>>
    THEN [failed |-> FALSE, folder |-> folder, saved_files |-> saved_files]
    ELSE LET file == Head(files)
         IN  IF file.filename = <<>> \/ ~endswith(file.filename, {".pdf", ".html"})
             THEN save_files(Tail(files), folder, saved_files, env)
             ELSE IF ~env.writeOk
             THEN [failed |-> TRUE, folder |-> folder, saved_files |-> saved_files]
             ELSE save_files(Tail(files), Put(folder, file.filename, file.content),
                             Append(saved_files, file.filename), env)

\* the response that reports the files requested and the documents loaded
UploadResponseOfFiles(saved_files, documents, splits) ==
    [Http(200, "Documents processed successfully")
        EXCEPT !.documents_indexed = Len(saved_files), !.total_chunks = Len(documents)]

\* UploadResponse(message=..., documents_indexed=len(documents),
\* total_chunks=len(splits))
UploadResponse(saved_files, documents, splits) ==
    [Http(200, "Documents processed successfully")
        EXCEPT !.documents_indexed = Len(documents), !.total_chunks = Len(splits)]

\* the answer of the except clause of the try block
ProcessingFailed(err) == [Http(500, "Failed to process documents") EXCEPT !.err = err]

\* the try block of upload_files: get_rag_service, load, split, add.
\* The documents are tagged with the session they are uploaded under.
process_documents(w, session_id, folder, saved_files, env) ==
    LET w1 == get_rag_service(w, session_id, env)
    IN  IF w1.err # "none"
        THEN [w |-> w1, resp |-> ProcessingFailed(w1.err)]
        ELSE LET id == w1.service
                 documents == load_documents(folder, session_id, saved_files)
                 splits == split_documents(documents)
                 m0 == WithMachine(w1, id)
                 m == vs_add_documents(
                          [m0 EXCEPT !.svc = vectorstore_service(m0.svc)], splits, env)
                 w2 == Absorb(w1, id, m)
             IN  IF m.err # "none"
                 THEN [w |-> w2, resp |-> ProcessingFailed(m.err)]
                 ELSE [w |-> w2, resp |-> UploadResponse(saved_files, documents, splits)]

\* the session fetched before the saved files are looked at
upload_process_eager(w, session_id, folder, saved_files, env) ==
    IF saved_files = <<>>
    THEN [w |-> [get_rag_service(w, session_id, env) EXCEPT !.err = "none", !.service = 0],
          resp |-> Http(400, "No valid PDF or HTML files provided")]
    ELSE process_documents(w, session_id, folder, saved_files, env)

\* from "if not saved_files" to the response
upload_process(w, session_id, folder, saved_files, env) ==
    IF saved_files = <<>>
    THEN [w |-> w, resp |-> Http(400, "No valid PDF or HTML files provided")]
    ELSE process_documents(w, session_id, folder, saved_files, env)

upload_files(w, session_id, files, env) ==
    LET saved == save_files(files, <<>>, <<>>, env)
    IN  IF saved.failed
        THEN [w |-> w, resp |-> Http(500, "Failed to save")]
        ELSE upload_process(w, session_id, saved.folder, saved.saved_files, env)

\* the entries of the collection of a session
Entries(colls, session_id) ==
    IF CollectionName(session_id) \in DOMAIN colls
    THEN colls[CollectionName(session_id)] ELSE <<>>

\* the number of entries in all the collections
RECURSIVE TotalEntries(_)
TotalEntries(colls) ==
    IF DOMAIN colls = {} THEN 0
    ELSE LET c == CHOOSE x \in DOMAIN colls : TRUE
         IN  Len(colls[c]) + TotalEntries(Del(colls, c))

UploadRun(h, files, env) ==
    /\ handlers[h].pc = "saving"
    /\ handlers[h].session_id \in DOMAIN _sessions \/ nInst < MaxInst
    /\ \E H \in {handlers[h]} : \E r \in {upload_files(World, H.session_id, files, env)} :
           /\ TotalEntries(r.w.collections) <= MaxEntries
           /\ Commit(r.w)
           /\ last' = Did("upload", H.session_id, H.session_id \notin DOMAIN _sessions,
                          World, r.w, [r.resp EXCEPT !.files = files])
    /\ handlers' = [handlers EXCEPT ![h] = Idle]

(***************************************************************************)
(* POST /question.  The handler awaits nothing: it runs from the request   *)
(* to the response without yielding the event loop.                        *)
(***************************************************************************)
\* the answer of the except clauses of ask_question
QuestionFailed(err, detail) == [Http(StatusOf(err), detail) EXCEPT !.err = err]

ask_question(w, request, cred, env) ==
    LET w1 == get_rag_service(w, request.session_id, env)
    IN  IF w1.err # "none"
        THEN [w |-> w1, resp |-> QuestionFailed(w1.err, w1.err)]
        ELSE LET id == w1.service
                 llm == get_llm(cred.provider, cred.api_key, cred.environ)
             IN  IF llm.err # "none"
                 THEN [w |-> w1, resp |-> QuestionFailed(llm.err, llm.detail)]
                 ELSE LET m == query_with_sources(WithMachine(w1, id), request.question, env)
                          w2 == Absorb(w1, id, m)
                      IN  IF m.err # "none"
                          THEN [w |-> w2,
                                resp |-> [QuestionFailed(m.err, m.err)
                                             EXCEPT !.retrievals = m.retrievals]]
                          ELSE [w |-> w2,
                                resp |-> [Http(200, "answer")
                                             EXCEPT !.answer = m.out.answer,
                                                    !.references = m.out.references,
                                                    !.docs = m.out.docs,
                                                    !.context_docs = m.out.context_docs,
                                                    !.retrievals = m.retrievals]]

QuestionRequests == [session_id : SessionIds, question : Questions]

AskQuestion(request, cred, env) ==
    /\ request.session_id \in DOMAIN _sessions \/ nInst < MaxInst
    /\ \E r \in {ask_question(World, request, cred, env)} :
           /\ Commit(r.w)
           /\ last' = Did("question", request.session_id,
                          request.session_id \notin DOMAIN _sessions, World, r.w,
                          [r.resp EXCEPT !.cred = cred])
    /\ UNCHANGED handlers

Next ==
    \/ \E session_id \in SessionIds : DeleteSession(session_id)
    \/ GetModels
    \/ \E h \in Handlers, session_id \in SessionIds : UploadReceive(h, session_id)
    \/ \E h \in Handlers, c \in UploadCases : UploadRun(h, c.input, c.env)
    \/ \E request \in QuestionRequests, cred \in RequestCredentials, env \in QuestionEnvs :
           AskQuestion(request, cred, env)

Spec == Init /\ [][Next]_vars


(***************************************************************************)
(* The services called directly, as tests/ does: a client constructs       *)
(* RAGService objects and calls their methods.  heap holds the objects.    *)
(***************************************************************************)
\* the files on the client's disk
LibDisk ==
    (<<"a", ".pdf">> :> GoodA) @@ (<<"b", ".html">> :> GoodB) @@ (<<"x", ".pdf">> :> Corrupt)
        @@ (<<"n", ".txt">> :> GoodB)

PathsPdf == << <<"a", ".pdf">> >>
PathsMixed == << <<"b", ".html">>, <<"x", ".pdf">> >>
PathsMissing == << <<"fake", ".pdf">> >>

PathLists == {PathsPdf, PathsMixed, PathsMissing}

\* the chunks of the files of a path list
Chunks(file_paths) == split_documents(load_documents(LibDisk, "disk", file_paths))

DocLists == {Chunks(p) : p \in PathLists}

AddCases == IngestCases(PathLists, PathsPdf)

VsAddCases == IngestCases(DocLists, Chunks(PathsPdf))

\* the path lists load_documents is called with: the files that fail (the
\* unparsable x.pdf, the missing fake.pdf, the unsupported n.txt) first, in
\* the middle, last, and alone
LoadPathLists ==
    PathLists \cup
    { << <<"x", ".pdf">>, <<"a", ".pdf">> >>,
      << <<"a", ".pdf">>, <<"fake", ".pdf">>, <<"b", ".html">> >>,
      << <<"b", ".html">>, <<"n", ".txt">> >>,
      << <<"n", ".txt">>, <<"x", ".pdf">> >> }

\* DocumentService().load_documents(file_paths)
LibLoadDocuments(file_paths) ==
    /\ last' = [NoLast EXCEPT !.op = "load_documents",
                              !.docs = load_documents(LibDisk, "disk", file_paths),
                              !.files = file_paths,
                              !.loads = 1]
    /\ UNCHANGED <<_sessions, heap, collections, nInst, handlers>>

\* get_llm called with each of the credentials
LibGetLlm(cred) ==
    /\ last' = [NoLast EXCEPT !.op = "get_llm",
                              !.err = get_llm(cred.provider, cred.api_key, cred.environ).err,
                              !.detail = get_llm(cred.provider, cred.api_key, cred.environ).detail]
    /\ UNCHANGED <<_sessions, heap, collections, nInst, handlers>>

\* the session the client's services are constructed for
LibSessionIds == {"s1"}

\* the retrieval strategies the clients configure and ask for
Strategies == {"similarity", "mmr", "bogus"}

\* RAGConfig(retrieval_strategy=...)
RAGConfigOf(retrieval_strategy) == [RAGConfig EXCEPT !.retrieval_strategy = retrieval_strategy]

\* the strategy and k of the calls of retrieve
RetrieveCases ==
    { [strategy |-> "similarity", k |-> 1], [strategy |-> "mmr", k |-> 1],
      [strategy |-> "mmr", k |-> 2], [strategy |-> "bogus", k |-> 1] }

\* what the call that took machine m0 to m did
Called(op, id, m0, m) ==
    [NoLast EXCEPT !.op = op, !.session_id = m0.svc.session_id, !.service = id,
                   !.fresh = (m0.svc._vectorstore_service = <<>>
                              \/ ~exists(m0.svc)),
                   !.err = m.err, !.chromas = m.chromas, !.models = m.models,
                   !.loads = m.loads, !.retrievals = m.retrievals,
                   !.names = m.names, !.fetch_k = m.fetch_k]

\* the step of a call that took the machine of object id to m
LibStep(id, m, observed) ==
    /\ TotalEntries(m.collections) <= MaxEntries
    /\ m.svc._vectorstore_service # <<>> => VS(m.svc)._vectorstore <= MaxStores
    /\ heap' = [heap EXCEPT ![id] = m.svc]
    /\ collections' = m.collections
    /\ last' = observed
    /\ UNCHANGED <<_sessions, nInst, handlers>>

\* RAGService(config, session_id), one object for a session id
LibNew(session_id, retrieval_strategy) ==
    /\ nInst < MaxInst
    /\ \A i \in DOMAIN heap : heap[i].session_id # session_id
    /\ nInst' = nInst + 1
    /\ heap' = Put(heap, nInst + 1,
                   RAGService(RAGConfigOf(retrieval_strategy), session_id))
    /\ last' = [NoLast EXCEPT !.op = "new", !.session_id = session_id,
                              !.service = nInst + 1, !.constructed = 1, !.fresh = TRUE]
    /\ UNCHANGED <<_sessions, collections, handlers>>

LibInitialize(id, force_rebuild, env) ==
    LET m0 == Machine(heap[id], collections)
        m == initialize_vectorstore(m0, force_rebuild, env)
    IN  LibStep(id, m, Called(IF force_rebuild THEN "rebuild" ELSE "initialize", id, m0, m))

LibAddDocuments(id, file_paths, force_rebuild, env) ==
    LET m0 == Machine(heap[id], collections)
        m == add_documents(m0, LibDisk, "disk", file_paths, force_rebuild, env)
    IN  LibStep(id, m,
                [Called(IF force_rebuild THEN "add_documents_rebuild" ELSE "add_documents",
                        id, m0, m) EXCEPT !.files = file_paths])

\* service.vectorstore_service.add_documents(documents)
LibVsAddDocuments(id, documents, env) ==
    LET m0 == Machine(heap[id], collections)
        m == vs_add_documents([m0 EXCEPT !.svc = vectorstore_service(m0.svc)],
                              documents, env)
    IN  LibStep(id, m, [Called("vs_add_documents", id, m0, m)
                           EXCEPT !.total_chunks = Len(documents)])

\* service.vectorstore_service.create_from_documents(documents)
LibCreateFromDocuments(id, documents, env) ==
    LET m0 == Machine(heap[id], collections)
        m == create_from_documents([m0 EXCEPT !.svc = vectorstore_service(m0.svc)],
                                   documents, env)
    IN  LibStep(id, m, [Called("create_from_documents", id, m0, m)
                           EXCEPT !.total_chunks = Len(documents)])

LibQuery(id, question, env) ==
    LET m0 == Machine(heap[id], collections)
        m == query_with_sources(m0, question, env)
        called == [Called("query", id, m0, m)
                      EXCEPT !.strategy = heap[id].config.retrieval_strategy,
                             !.k = heap[id].config.retrieval_k]
    IN  LibStep(id, m,
                IF m.err # "none" THEN called
                ELSE [called EXCEPT !.answer = m.out.answer,
                                    !.references = m.out.references,
                                    !.docs = m.out.docs,
                                    !.context_docs = m.out.context_docs])

\* RetrievalService(service.vectorstore_service.vectorstore).retrieve(...)
\* on a service whose store exists
LibRetrieve(id, query, strategy, k) ==
    /\ heap[id]._vectorstore_service # <<>>
    /\ exists(heap[id])
    /\ LET m0 == Machine(heap[id], collections)
           m == retrieve(m0, query, strategy, k)
       IN  LibStep(id, m, [Called("retrieve", id, m0, m)
                              EXCEPT !.strategy = strategy, !.k = k,
                                     !.docs = IF m.err = "none" THEN m.out ELSE <<>>])

NextLib ==
    \/ \E session_id \in LibSessionIds, retrieval_strategy \in Strategies :
           LibNew(session_id, retrieval_strategy)
    \/ \E file_paths \in LoadPathLists : LibLoadDocuments(file_paths)
    \/ \E id \in DOMAIN heap, question \in Questions, c \in RetrieveCases :
           LibRetrieve(id, question, c.strategy, c.k)
    \/ \E id \in DOMAIN heap, force_rebuild \in BOOLEAN,
          env \in {EnvOk, [EnvOk EXCEPT !.embOk = FALSE]} :
           LibInitialize(id, force_rebuild, env)
    \/ \E id \in DOMAIN heap, c \in AddCases, force_rebuild \in BOOLEAN :
           LibAddDocuments(id, c.input, force_rebuild, c.env)
    \/ \E id \in DOMAIN heap, c \in VsAddCases : LibVsAddDocuments(id, c.input, c.env)
    \/ \E id \in DOMAIN heap, c \in VsAddCases : LibCreateFromDocuments(id, c.input, c.env)
    \/ \E cred \in Credentials : LibGetLlm(cred)
    \/ \E id \in DOMAIN heap, question \in Questions, env \in QuestionEnvs :
           LibQuery(id, question, env)

SpecLib == Init /\ [][NextLib]_vars


(***************************************************************************)
(* Properties.                                                             *)
(***************************************************************************)
\* s is an initial segment of t
IsPrefix(s, t) == Len(s) <= Len(t) /\ \A i \in DOMAIN s : t[i] = s[i]

\* C1: a question asked under a session never returns as a reference, and
\* never places in the prompt context, a chunk ingested under another session:
\* every document the question retrieved, for the references and for the
\* context, was ingested under the session the question names, and the
\* references and the context are the texts of those documents.
C1_SessionIsolation ==
    last.op = "question" =>
        /\ \A i \in DOMAIN last.docs : last.docs[i].source = last.session_id
        /\ \A i \in DOMAIN last.context_docs :
               last.context_docs[i].source = last.session_id
        /\ Len(last.references) = Len(last.docs)
        /\ Len(last.answer.context) = Len(last.context_docs)

\* a question answered with references while another session holds entries
C1_Witness ==
    /\ last.op = "question"
    /\ last.status = 200
    /\ last.references # <<>>
    /\ \E other \in SessionIds \ {last.session_id} :
           /\ <<"session_", other>> \in DOMAIN collections
           /\ collections[<<"session_", other>>] # <<>>

\* C2: when upload handlers are in flight together for the same new session
\* id, whichever runs get_rag_service first constructs the one RAGService and
\* the one Chroma index of the id and registers it; a handler that runs it
\* with the id registered constructs nothing; either way the handler works on
\* the instance the registry holds, and no second live instance of the id
\* exists.
C2_OneInstancePerSession ==
    [][(last'.op = "upload" /\ last'.service # 0) =>
        LET sid == last'.session_id
        IN  /\ sid \in DOMAIN _sessions'
            /\ _sessions'[sid] = last'.service
            /\ last'.constructed = (IF sid \in DOMAIN _sessions THEN 0 ELSE 1)
            /\ last'.chromas = last'.constructed
            /\ sid \in DOMAIN _sessions => _sessions'[sid] = _sessions[sid]
            /\ Cardinality({i \in DOMAIN heap' : heap'[i].session_id = sid}) = 1]_vars

\* an upload has just created the session while another upload handler for
\* the same session id is still suspended
C2_Witness ==
    /\ last.op = "upload"
    /\ last.status = 200
    /\ last.fresh
    /\ last.constructed = 1
    /\ \E h \in Handlers :
           handlers[h].pc = "saving" /\ handlers[h].session_id = last.session_id

\* C3: get_rag_service called for a session id that is registered returns the
\* registered instance, constructs no RAGService, no Chroma object and no
\* embedding model, leaves the registry and the service objects as they were,
\* and a question through it retrieves what was ingested before.
C3_GetRagServiceIdempotent ==
    [][(/\ last'.op \in {"question", "upload"}
        /\ last'.session_id \in DOMAIN _sessions
        /\ last'.service # 0) =>
        LET sid == last'.session_id
            entries == Entries(collections, sid)
        IN  /\ last'.service = _sessions[sid]
            /\ last'.constructed = 0
            /\ last'.chromas = 0
            /\ last'.models = 0
            /\ _sessions' = _sessions
            /\ heap' = heap
            /\ (last'.op = "question" /\ last'.status = 200 /\ Len(entries) <= retrieval_k)
                   => \A i \in DOMAIN entries :
                          \E j \in DOMAIN last'.docs : last'.docs[j] = entries[i]]_vars

\* a question on a session registered before it retrieved ingested content
C3_Witness ==
    /\ last.op = "question"
    /\ ~last.fresh
    /\ last.status = 200
    /\ last.constructed = 0
    /\ last.docs # <<>>

\* C4: a question that is answered has made exactly one retrieval against
\* the session's index, whose result is both the context and the references.
C4_SingleRetrieval ==
    (last.op = "question" /\ last.status = 200) => last.retrievals = 1

C6_DeleteSession ==
    [][last'.op = "delete" =>
        LET sid == last'.session_id
        IN  IF sid \in DOMAIN _sessions
            THEN /\ last'.status = 200
                 /\ DOMAIN _sessions' = DOMAIN _sessions \ {sid}
                 /\ \A x \in DOMAIN _sessions' : _sessions'[x] = _sessions[x]
            ELSE /\ last'.status = 404
                 /\ _sessions' = _sessions]_vars

\* a registered session was deleted and another one stays registered
C6_Witness ==
    /\ last.op = "delete"
    /\ last.status = 200
    /\ ~last.fresh
    /\ last.session_id \notin DOMAIN _sessions
    /\ DOMAIN _sessions # {}

\* C7: a question for a session id that is not registered is answered with an
\* error, constructs nothing and leaves the id unregistered.
C7_QuestionOnAbsentSession ==
    (last.op = "question" /\ last.fresh) =>
        /\ last.status >= 400
        /\ last.constructed = 0
        /\ last.session_id \notin DOMAIN _sessions

\* C8: VectorStoreService.add_documents on a service whose store was never
\* created raises, constructs no Chroma object and leaves exists() false.
C8_AddBeforeCreateFails ==
    (last.op = "vs_add_documents" /\ last.fresh) =>
        /\ last.err # "none"
        /\ last.chromas = 0
        /\ ~exists(heap[last.service])

\* C9: RAGService.add_documents with force_rebuild false on a service whose
\* vector store does not exist raises ValueError before load_documents is
\* called, constructs no Chroma object, and leaves the store not existing and
\* the collections as they were.
C9_AddDocumentsUninitialized ==
    [][(/\ last'.op = "add_documents"
        /\ \/ heap[last'.service]._vectorstore_service = <<>>
           \/ ~exists(heap[last'.service])) =>
        /\ last'.err = "ValueError"
        /\ last'.loads = 0
        /\ last'.chromas = 0
        /\ ~exists(heap'[last'.service])
        /\ collections' = collections]_vars

\* add_documents was called on a service with no store and raised ValueError
C9_Witness ==
    /\ last.op = "add_documents"
    /\ last.fresh
    /\ last.err = "ValueError"
    /\ last.loads = 0
    /\ ~exists(heap[last.service])

\* C10: while a session stays registered the entries of its collection only
\* grow: every step leaves the entries it had as an initial segment of the
\* entries it has, and a question, a models listing, the arrival of an upload
\* or an upload that fails leaves them as they were.
C10_EntriesOnlyGrow ==
    [][\A sid \in SessionIds :
        (sid \in DOMAIN _sessions /\ sid \in DOMAIN _sessions') =>
            /\ IsPrefix(Entries(collections, sid), Entries(collections', sid))
            /\ (\/ last'.op \in {"question", "models", "receive"}
                \/ (last'.op = "upload" /\ last'.status # 200))
                   => Entries(collections', sid) = Entries(collections, sid)]_vars

\* a successful upload appended its chunks to the entries the session had
C10_Witness ==
    /\ last.op = "upload"
    /\ last.status = 200
    /\ ~last.fresh
    /\ last.total_chunks > 0
    /\ Len(Entries(collections, last.session_id)) > last.total_chunks

\* the service object svc has an initialized vector store
Ready(svc) ==
    /\ svc._vectorstore_service # <<>>
    /\ svc._vectorstore_service[1]._vectorstore # 0

\* C11: every session id in the registry maps to a service of that id whose
\* vector store is initialized; a get_rag_service whose construction or
\* initialization fails leaves the registry as it was, the id absent.
C11_RegisteredIsReady ==
    [][/\ \A sid \in DOMAIN _sessions' :
              /\ _sessions'[sid] \in DOMAIN heap'
              /\ heap'[_sessions'[sid]].session_id = sid
              /\ Ready(heap'[_sessions'[sid]])
       /\ (last'.constructed = 1 /\ last'.service = 0) =>
              /\ _sessions' = _sessions
              /\ last'.session_id \notin DOMAIN _sessions'
              /\ last'.status = 500]_vars

\* a request for an absent session failed while the service was initialized
\* and the session is still absent
C11_Witness ==
    /\ last.op \in {"upload", "question"}
    /\ last.fresh
    /\ last.constructed = 1
    /\ last.service = 0
    /\ last.status = 500
    /\ last.session_id \notin DOMAIN _sessions

\* C12: an upload into a registered session that does not succeed is answered
\* with an error status and leaves the session registered with the same
\* service object, its vector store initialized and its entries as they were.
C12_FailedIngestKeepsSession ==
    [][(/\ last'.op = "upload"
        /\ last'.session_id \in DOMAIN _sessions
        /\ last'.status # 200) =>
        LET sid == last'.session_id
        IN  /\ last'.status \in {400, 500}
            /\ _sessions' = _sessions
            /\ heap' = heap
            /\ Ready(heap'[_sessions'[sid]])
            /\ Entries(collections', sid) = Entries(collections, sid)]_vars

\* the insertion of an upload into a registered session that holds entries
\* failed, and the session is registered
C12_Witness ==
    /\ last.op = "upload"
    /\ ~last.fresh
    /\ last.status = 500
    /\ last.service # 0
    /\ last.err = "InsertError"
    /\ last.session_id \in DOMAIN _sessions
    /\ Entries(collections, last.session_id) # <<>>

\* the parts of a request body that upload_files saves
Saved(files) ==
    SelectSeq(files, LAMBDA f : f.filename # <<>>
                                /\ f.filename[Len(f.filename)] \in {".pdf", ".html"})

\* the saved parts with the content their path holds when the loop that saves
\* them has ended: open(file_path, "wb") replaces what an earlier part of the
\* same filename wrote
StoredAs(saved) ==
    [i \in DOMAIN saved |->
        LET j == CHOOSE j \in DOMAIN saved :
                    /\ saved[j].filename = saved[i].filename
                    /\ \A k \in DOMAIN saved :
                           saved[k].filename = saved[i].filename => k <= j
        IN  [saved[i] EXCEPT !.content = saved[j].content]]

\* the number of documents the saved files of a body yield: the pages of the
\* files that can be parsed
RECURSIVE PagesOf(_)
PagesOf(files) ==
    IF files = <<>> THEN 0
    ELSE (IF Head(files).content.ok THEN Len(Head(files).content.pages) ELSE 0)
             + PagesOf(Tail(files))

\* the number of chunks the saved files of a body yield
RECURSIVE SegmentsOfPages(_)
SegmentsOfPages(pages) ==
    IF pages = <<>> THEN 0 ELSE Len(Head(pages)) + SegmentsOfPages(Tail(pages))

RECURSIVE SegmentsOf(_)
SegmentsOf(files) ==
    IF files = <<>> THEN 0
    ELSE (IF Head(files).content.ok THEN SegmentsOfPages(Head(files).content.pages) ELSE 0)
             + SegmentsOf(Tail(files))

C16_FailsIffNothingIndexed ==
    [][last'.op = "upload" =>
        LET sid == last'.session_id
            saved == StoredAs(Saved(last'.files))
            added == Len(Entries(collections', sid)) - Len(Entries(collections, sid))
        IN  /\ last'.status \in {200, 400, 500}
            /\ last'.status = 200 <=> added > 0
            /\ saved = <<>> => last'.status = 400
            /\ (saved # <<>> /\ SegmentsOf(saved) = 0) => last'.status = 500]_vars

\* an upload whose only file fails extraction was answered with an error
C16_Witness ==
    /\ last.op = "upload"
    /\ last.status = 500
    /\ last.service # 0
    /\ last.files # <<>>
    /\ \A i \in DOMAIN last.files : ~last.files[i].content.ok
    /\ last.err = "ValueError"

\* C17: an upload answered 400 constructed nothing and left the registry, the
\* service objects and the collections as they were.
C17_RejectedUploadNoEffect ==
    [][(last'.op = "upload" /\ last'.status = 400) =>
        /\ _sessions' = _sessions
        /\ heap' = heap
        /\ collections' = collections
        /\ nInst' = nInst
        /\ last'.service = 0
        /\ last'.constructed = 0
        /\ last'.chromas = 0
        /\ last'.models = 0]_vars

\* an upload without a valid file for an absent session was rejected and the
\* session is absent
C17_Witness ==
    /\ last.op = "upload"
    /\ last.status = 400
    /\ last.fresh
    /\ last.session_id \notin DOMAIN _sessions
    /\ <<"session_", last.session_id>> \notin DOMAIN collections

\* the file of a path can be loaded: it is on the disk, parsable, and a
\* PDF or an HTML file
LoadsOk(path) ==
    /\ path \in DOMAIN LibDisk
    /\ LibDisk[path].ok
    /\ path[Len(path)] \in {".pdf", ".html"}

\* the documents of a file that can be loaded, one for each page
DocsOfFile(path) ==
    [i \in 1..Len(LibDisk[path].pages) |->
        [page_content |-> LibDisk[path].pages[i], source |-> "disk"]]

RECURSIVE ConcatLoaded(_)
ConcatLoaded(paths) ==
    IF paths = <<>> THEN <<>>
    ELSE (IF LoadsOk(Head(paths)) THEN DocsOfFile(Head(paths)) ELSE <<>>)
             \o ConcatLoaded(Tail(paths))

\* C13: load_documents returns for every list of paths, and every document of
\* every file of the list that can be loaded is in the result, wherever the
\* files that fail or are unsupported stand in the list.
C13_LoadToleratesBadFiles ==
    last.op = "load_documents" =>
        /\ last.err = "none"
        /\ \A i \in DOMAIN last.files :
               LoadsOk(last.files[i]) =>
                   \A j \in DOMAIN DocsOfFile(last.files[i]) :
                       \E n \in DOMAIN last.docs :
                           last.docs[n] = DocsOfFile(last.files[i])[j]

\* a list whose first file fails and whose second file was loaded
C13_Witness ==
    /\ last.op = "load_documents"
    /\ Len(last.files) >= 2
    /\ ~LoadsOk(last.files[1])
    /\ LoadsOk(last.files[2])
    /\ last.docs # <<>>

\* C14: the result of load_documents is the concatenation, in the order of
\* the paths, of the complete document lists of the files that can be loaded,
\* and it is empty when none can.
C14_LoadIsConcatenation ==
    last.op = "load_documents" =>
        /\ last.docs = ConcatLoaded(last.files)
        /\ (\A i \in DOMAIN last.files : ~LoadsOk(last.files[i])) => last.docs = <<>>

\* two files were loaded around one that fails, in the order of the paths
C14_Witness ==
    /\ last.op = "load_documents"
    /\ Len(last.files) = 3
    /\ LoadsOk(last.files[1]) /\ ~LoadsOk(last.files[2]) /\ LoadsOk(last.files[3])
    /\ Len(last.docs) = 3
    /\ last.docs[3] = DocsOfFile(last.files[3])[1]

\* C18: a retrieval with a strategy other than "similarity" and "mmr", by
\* retrieve or by query_with_sources, raises an error that names these two
\* values as the valid ones, before any retrieval is made.
C18_InvalidStrategy ==
    (/\ last.op \in {"retrieve", "query"}
     /\ last.strategy \notin {"similarity", "mmr"}
     /\ last.err # "EmbeddingsError") =>
        /\ last.err = "ValueError"
        /\ last.retrievals = 0
        /\ last.names = {"similarity", "mmr"}

\* C19: a retrieval with strategy "mmr" and parameter k, by retrieve or by
\* query_with_sources, asks for a candidate pool of 2k.
C19_MmrFetchK ==
    (/\ last.op \in {"retrieve", "query"}
     /\ last.strategy = "mmr"
     /\ last.retrievals > 0) =>
        last.fetch_k = 2 * last.k

OtherQuestionErrors == {"ValueError", "EmbeddingsError"}

\* C21: a question that fails because the provider of the chat model fails
\* (key rejected, outage, rate limit) is answered with a status that no
\* other failure of a question is answered with.
C21_ExternalErrorDistinct ==
    (last.op = "question" /\ last.err = "LLMError") =>
        /\ last.status >= 400
        /\ last.status \notin {StatusOf(e) : e \in OtherQuestionErrors}

\* vectorstore_service.exists() of the service object svc, false as well
\* when the object has constructed no VectorStoreService yet
StoreExists(svc) == svc._vectorstore_service # <<>> /\ exists(svc)

\* the calls that create the store of a service when they return
StoreCreators ==
    {"initialize", "rebuild", "add_documents_rebuild", "create_from_documents",
     "vs_add_documents", "query"}

C23_CreateEmptyIsEmpty ==
    (/\ last.op \in {"initialize", "rebuild", "add_documents_rebuild"}
     /\ last.chromas = 1
     /\ last.err = "none") =>
        Entries(collections, last.session_id) = <<>>

(***************************************************************************)
(* The event loop.  uvicorn.run(app) serves every request on one thread    *)
(* running one asyncio event loop, and upload_files and ask_question are   *)
(* coroutines (async def) that call the services directly: a handler keeps *)
(* the thread from the moment the loop resumes it until its next await or  *)
(* its return.  A handler is pending (request received, coroutine not      *)
(* started), saving (suspended at await file.read()), or running (on the   *)
(* thread, inside get_rag_service, load_documents, add_documents,          *)
(* query_with_sources).                                                    *)
(***************************************************************************)
LoopIdle == [pc |-> "idle", session_id |-> "", op |-> "", files |-> <<>>]

\* the requests the clients send in this specification
LoopRequests ==
    [op : {"upload"}, session_id : SessionIds, files : {BodyMixed, BodyNoValidFile}]
        \cup [op : {"question"}, session_id : SessionIds, files : {<<>>}]

Ollama == [provider |-> "ollama", api_key |-> "", environ |-> {}]

\* no handler is on the thread of the event loop
LoopFree == \A h \in Handlers : handlers[h].pc # "running"

\* the chunks the uploads received and not yet processed will add
RECURSIVE ChunksInFlight(_)
ChunksInFlight(hs) ==
    IF hs = {} THEN 0
    ELSE LET h == CHOOSE x \in hs : TRUE
         IN  SegmentsOf(Saved(handlers[h].files)) + ChunksInFlight(hs \ {h})

InitLoop ==
    /\ _sessions = <<>>
    /\ heap = <<>>
    /\ collections = <<>>
    /\ nInst = 0
    /\ handlers = [h \in Handlers |-> LoopIdle]
    /\ last = NoLast

\* a request reaches the server
LoopArrive(h, request) ==
    /\ handlers[h].pc = "idle"
    /\ TotalEntries(collections) + ChunksInFlight(Handlers)
           + SegmentsOf(Saved(request.files)) <= MaxEntries
    /\ handlers' = [handlers EXCEPT ![h] =
           [pc |-> "pending", session_id |-> request.session_id,
            op |-> request.op, files |-> request.files]]
    /\ UNCHANGED <<_sessions, heap, collections, nInst, last>>

\* the event loop starts the coroutine of a pending request: upload_files
\* runs to its first await, ask_question has no await
LoopStart(h) ==
    /\ handlers[h].pc = "pending"
    /\ LoopFree
    /\ handlers' = [handlers EXCEPT ![h].pc =
           IF handlers[h].op = "upload" THEN "saving" ELSE "running"]
    /\ UNCHANGED <<_sessions, heap, collections, nInst, last>>

\* the event loop resumes upload_files after the last await file.read()
LoopResume(h) ==
    /\ handlers[h].pc = "saving"
    /\ LoopFree
    /\ handlers' = [handlers EXCEPT ![h].pc = "running"]
    /\ UNCHANGED <<_sessions, heap, collections, nInst, last>>

\* the handler on the thread returns its response
LoopReturn(h) ==
    /\ handlers[h].pc = "running"
    /\ \E H \in {handlers[h]} :
       \E r \in {IF H.op = "upload"
                 THEN upload_files(World, H.session_id, H.files, EnvOk)
                 ELSE ask_question(World, [session_id |-> H.session_id, question |-> "q1"],
                                   Ollama, EnvOk)} :
           /\ Commit(r.w)
           /\ last' = Did(H.op, H.session_id, H.session_id \notin DOMAIN _sessions,
                          World, r.w, [r.resp EXCEPT !.files = H.files])
    /\ handlers' = [handlers EXCEPT ![h] = LoopIdle]

NextLoop ==
    \/ \E h \in Handlers, request \in LoopRequests : LoopArrive(h, request)
    \/ \E h \in Handlers : LoopStart(h)
    \/ \E h \in Handlers : LoopResume(h)
    \/ \E h \in Handlers : LoopReturn(h)

SpecLoop == InitLoop /\ [][NextLoop]_vars

\* C24: while the handler of a request of one session is inside a
\* long-running operation (loading, embedding, searching, generating), a
\* pending request of another session can be started.
C24_OtherSessionsNotBlocked ==
    \A a, b \in Handlers :
        (/\ handlers[a].pc = "running"
         /\ handlers[b].pc = "pending"
         /\ handlers[a].session_id # handlers[b].session_id) =>
            ENABLED LoopStart(b)

\* the service object svc holds an embedding model
ModelLoaded(svc) ==
    svc._vectorstore_service # <<>> /\ VS(svc)._embeddings # 0

\* C25: constructing a service loads no embedding model; a call on a
\* service that holds no model constructs at most one, and holds it
\* afterwards exactly when it constructed one; a call on a service that
\* holds a model constructs none and the service keeps holding it.
C25_EmbeddingsLazyOnce ==
    [][/\ last'.op = "new" =>
              /\ last'.models = 0
              /\ ~ModelLoaded(heap'[last'.service])
              /\ ~ModelLoaded(vectorstore_service(heap'[last'.service]))
       /\ \A id \in DOMAIN heap :
              /\ ModelLoaded(heap[id]) =>
                     /\ ModelLoaded(heap'[id])
                     /\ last'.service = id => last'.models = 0
              /\ (~ModelLoaded(heap[id]) /\ last'.service = id) =>
                     /\ last'.models \in {0, 1}
                     /\ last'.models = 1 <=> ModelLoaded(heap'[id])]_vars

\* a store was created again on a service that held a model, and no model
\* was constructed for it
C25_Witness ==
    /\ last.op = "rebuild"
    /\ ~last.fresh
    /\ last.err = "none"
    /\ last.chromas = 1
    /\ last.models = 0
    /\ ModelLoaded(heap[last.service])

\* C26: when RAGService.add_documents(file_paths, force_rebuild) has
\* returned, with force_rebuild true or false, the chunks of the files of
\* file_paths are the last entries of the collection of the service.
C26_AddDocumentsBothModes ==
    (/\ last.op \in {"add_documents", "add_documents_rebuild"}
     /\ last.err = "none") =>
        LET chunks == Chunks(last.files)
            entries == Entries(collections, last.session_id)
        IN  /\ Len(chunks) <= Len(entries)
            /\ SubSeq(entries, Len(entries) - Len(chunks) + 1, Len(entries)) = chunks

\* the store handle of the service object svc, 0 when it has none
StoreHandle(svc) ==
    IF svc._vectorstore_service = <<>> THEN 0 ELSE VS(svc)._vectorstore

\* C27: initialize_vectorstore() on a service whose store exists returns
\* without constructing a store and leaves the service, its store handle
\* and the collections as they were; initialize_vectorstore(force_rebuild=
\* True) that returns has constructed one store and the service holds a new
\* handle, whether or not a store existed.
C27_InitializeIdempotent ==
    [][/\ (last'.op = "initialize" /\ StoreExists(heap[last'.service])) =>
              /\ last'.err = "none"
              /\ last'.chromas = 0
              /\ StoreHandle(heap'[last'.service]) = StoreHandle(heap[last'.service])
              /\ heap' = heap
              /\ collections' = collections
       /\ (last'.op = "rebuild" /\ last'.err = "none") =>
              /\ last'.chromas = 1
              /\ StoreHandle(heap'[last'.service]) # StoreHandle(heap[last'.service])
              /\ StoreHandle(heap'[last'.service]) # 0]_vars

\* a second initialize_vectorstore() on a rebuilt store constructed nothing
C27_Witness ==
    /\ last.op = "initialize"
    /\ ~last.fresh
    /\ last.err = "none"
    /\ last.chromas = 0
    /\ StoreHandle(heap[last.service]) = 2

\* C28: a question answered 400 (unknown provider, missing key) leaves the
\* server as it was: no service constructed, the registry, the service
\* objects and the collections unchanged.
C28_ConfigErrorNoEffect ==
    [][(last'.op = "question" /\ last'.status = 400) =>
           /\ last'.constructed = 0
           /\ _sessions' = _sessions
           /\ heap' = heap
           /\ collections' = collections]_vars

\* the chunks of the contents the saved parts of a request body carry, each
\* part loaded from its own content, in the order of the body
RECURSIVE OwnChunks(_, _)
OwnChunks(files, source) ==
    IF files = <<>> THEN <<>>
    ELSE split_documents(LoadOne(Head(files).filename :> Head(files).content,
                                 source, Head(files).filename))
             \o OwnChunks(Tail(files), source)

\* C29: a successful upload adds to the session's collection the chunks of
\* the content of each accepted part of the body, each part once, also when
\* two parts carry the same filename.
C29_EachFileIndexedOnce ==
    [][(last'.op = "upload" /\ last'.status = 200) =>
           Entries(collections', last'.session_id) =
               Entries(collections, last'.session_id)
                   \o OwnChunks(Saved(last'.files), last'.session_id)]_vars

\* C30: DELETE /session/{s} removes or changes no session but s: every
\* other registered id stays registered with the same service object in the
\* same state and the same entries, and no id is added; a delete answered
\* 404 changes nothing.
C30_DeleteChangesOnlyItsSession ==
    [][last'.op = "delete" =>
        LET s == last'.session_id
        IN  /\ DOMAIN _sessions' \subseteq DOMAIN _sessions
            /\ \A sid \in DOMAIN _sessions \ {s} :
                   /\ sid \in DOMAIN _sessions'
                   /\ _sessions'[sid] = _sessions[sid]
                   /\ heap'[_sessions'[sid]] = heap[_sessions[sid]]
            /\ \A sid \in SessionIds \ {s} :
                   Entries(collections', sid) = Entries(collections, sid)
            /\ last'.status \in {200, 404}
            /\ last'.status = 404 =>
                   /\ _sessions' = _sessions
                   /\ heap' = heap
                   /\ collections' = collections
                   /\ nInst' = nInst
                   /\ handlers' = handlers]_vars

\* a session was deleted while another one, with entries, is registered
C30_Witness ==
    /\ last.op = "delete"
    /\ last.status = 200
    /\ \E sid \in DOMAIN _sessions :
           /\ sid # last.session_id
           /\ Entries(collections, sid) # <<>>
           /\ StoreExists(heap[_sessions[sid]])
====
